---- MODULE Spec2Model ----
(***************************************************************************)
(* Model of node-jkutils: the Q3 out-of-band message parser                *)
(* (lib/message-parser.js), the codec helpers (lib/jkutils.js), the        *)
(* one-socket session JKSocket (lib/jksocket.js), the three protocol       *)
(* operations of JKComms (lib/jkcomms.js) and the chained workflow of the  *)
(* command line (index.js).                                                *)
(*                                                                         *)
(* Representation.  A Buffer is a sequence of bytes 0..255; a JavaScript   *)
(* string is the sequence of its character codes; a dotted-quad string     *)
(* "a.b.c.d" is the tuple <<a, b, c, d>> of its decimal fields; the value  *)
(* undefined is Undefined.  A 32-bit unsigned integer is kept as its two   *)
(* 16-bit halves so that no arithmetic leaves the range of the checker.    *)
(***************************************************************************)
EXTENDS Integers, Sequences, FiniteSets, TLC

(***************************************************************************)
(* Bounds of the model                                                     *)
(***************************************************************************)
\* number of operations (sends) issued on the session
MaxExchanges == 2
\* number of datagrams that arrive on the socket
MaxDatagrams == 2

(***************************************************************************)
(* Character codes and string literals of the source                       *)
(***************************************************************************)
NUL == 0
LF == 10
CR == 13
SPACE == 32
QUOTE == 34
BACKSLASH == 92

Undefined == << -1 >>

str_getserversResponse == <<103,101,116,115,101,114,118,101,114,115,82,101,115,112,111,110,115,101>>
str_infoResponse == <<105,110,102,111,82,101,115,112,111,110,115,101>>
str_statusResponse == <<115,116,97,116,117,115,82,101,115,112,111,110,115,101>>
str_jkutils_query == <<106,107,117,116,105,108,115,45,113,117,101,114,121>>
str_challenge == <<99,104,97,108,108,101,110,103,101>>

\* JKUtils.oobPrefix
oobPrefix == <<255, 255, 255, 255>>

(***************************************************************************)
(* Buffer and String primitives of the runtime, as the source uses them    *)
(***************************************************************************)
Min(a, b) == IF a < b THEN a ELSE b

\* Buffer.slice( start, end ): both ends are clamped to the buffer
Slice(buf, start, end) ==
    SubSeq(buf, Min(start, Len(buf)) + 1, Min(end, Len(buf)))

\* Buffer.toString( 'ascii', start ): the high bit of every byte is unset
ToAscii(buf, start) ==
    LET rest == Slice(buf, start, Len(buf))
    IN  [i \in 1..Len(rest) |-> rest[i] % 128]

\* String.prototype.indexOf( ch ): zero-based, -1 when absent
RECURSIVE IndexFrom(_, _, _)
IndexFrom(str, ch, i) ==
    IF i > Len(str) THEN -1
    ELSE IF str[i] = ch THEN i - 1
    ELSE IndexFrom(str, ch, i + 1)

IndexOf(str, ch) == IndexFrom(str, ch, 1)

\* String.prototype.toLowerCase() on the ASCII range
ToLowerCase(str) ==
    [i \in 1..Len(str) |-> IF str[i] >= 65 /\ str[i] <= 90 THEN str[i] + 32 ELSE str[i]]

\* String.prototype.split( ch ): always at least one token
RECURSIVE Split(_, _)
Split(str, ch) ==
    LET idx == IndexOf(str, ch)
    IN  IF idx = -1
        THEN <<str>>
        ELSE <<SubSeq(str, 1, idx)>> \o Split(SubSeq(str, idx + 2, Len(str)), ch)

\* the concatenation of a sequence of strings or buffers
RECURSIVE Concat(_)
Concat(seqs) == IF seqs = <<>> THEN <<>> ELSE Head(seqs) \o Concat(Tail(seqs))

\* Buffer.readUInt32LE( offset ) as [hi, lo] 16-bit halves
ReadUInt32LE(buf, offset) ==
    [hi |-> buf[offset + 4] * 256 + buf[offset + 3],
     lo |-> buf[offset + 2] * 256 + buf[offset + 1]]

\* the literal 0xFFFFFFFF
Marker == [hi |-> 65535, lo |-> 65535]

\* Buffer.readUInt16BE( offset )
ReadUInt16BE(buf, offset) == buf[offset + 1] * 256 + buf[offset + 2]

\* a | b on integers 0..65535
RECURSIVE BitOr(_, _)
BitOr(a, b) ==
    IF a = 0 THEN b
    ELSE IF b = 0 THEN a
    ELSE (IF a % 2 = 1 \/ b % 2 = 1 THEN 1 ELSE 0) + 2 * BitOr(a \div 2, b \div 2)

\* a JavaScript value with its type, for strict equality
JSString(s) == [type |-> "string", val |-> s]
JSNumber(n) == [type |-> "number", val |-> n]

\* Array.prototype.indexOf( v ): strict equality, -1 when absent
StrictEquals(a, b) == a.type = b.type /\ a.val = b.val

ArrayIndexOf(arr, v) ==
    IF \E i \in 1..Len(arr) : StrictEquals(arr[i], v)
    THEN (CHOOSE i \in 1..Len(arr) :
             /\ StrictEquals(arr[i], v)
             /\ \A j \in 1..(i - 1) : ~StrictEquals(arr[j], v)) - 1
    ELSE -1

(***************************************************************************)
(* lib/jkutils.js                                                          *)
(***************************************************************************)
str___proto__ == <<95, 95, 112, 114, 111, 116, 111, 95, 95>>

\* pairs[key] = val on an object created by {}: __proto__ is the accessor
\* inherited from Object.prototype, whose setter ignores a string and
\* creates no property; any other key becomes an own property
Put(pairs, key, val) ==
    IF key = str___proto__
    THEN pairs
    ELSE [k \in (DOMAIN pairs) \cup {key} |-> IF k = key THEN val ELSE pairs[k]]

\* the object built by the for loop of parseInfostring from token i on
RECURSIVE InfoPairs(_, _, _)
InfoPairs(toks, i, pairs) ==
    IF i - 1 < Len(toks) - 1
    THEN LET key == ToLowerCase(toks[i])
             val == toks[i + 1]
         IN  InfoPairs(toks, i + 2, Put(pairs, key, val))
    ELSE pairs

EmptyObject == [k \in {} |-> <<>>]

parseInfostring(info) ==
    LET stripped == IF Len(info) > 0 /\ info[1] = BACKSLASH
                    THEN SubSeq(info, 2, Len(info))
                    ELSE info
        toks == Split(stripped, BACKSLASH)
    IN  InfoPairs(toks, 1, EmptyObject)

\* property read obj[key]: undefined when the key is absent
Get(obj, key) == IF key \in DOMAIN obj THEN obj[key] ELSE Undefined

\* octets is ip.split( '.' ).map( n => +n ).  (octets[0] << 24) | ... is an
\* int32 whose bytes are the four octets, negative when octets[0] >= 128,
\* and writeUInt32BE throws a RangeError on a negative value; the value
\* handed to writeUInt16BE is (port >> 8) | (port & 0xFF)
encodeServer(ip, port) ==
    LET octets == ip
        word == [hi |-> octets[1] * 256 + octets[2],
                 lo |-> octets[3] * 256 + octets[4]]
        short == BitOr(port \div 256, port % 256)
    IN  IF word.hi >= 32768
        THEN [thrown |-> TRUE, buffer |-> <<0, 0, 0, 0, 0, 0>>]
        ELSE [thrown |-> FALSE,
              buffer |-> <<word.hi \div 256, word.hi % 256,
                           word.lo \div 256, word.lo % 256,
                           short \div 256, short % 256>>]

decodeServer(buffer) ==
    [ip |-> Slice(buffer, 0, 4), port |-> ReadUInt16BE(buffer, 4)]

(***************************************************************************)
(* lib/message-parser.js: a parser is [msg, offset]; an operation returns  *)
(* the parser after it as p and its return value as ret                    *)
(***************************************************************************)
\* the constructor without the comparison of the marker
Q3MessageParser_unchecked(msg) ==
    IF Len(msg) < 4
    THEN [thrown |-> TRUE, p |-> [msg |-> msg, offset |-> 0]]
    ELSE [thrown |-> FALSE,
          p |-> [msg |-> msg, offset |-> 4]]

\* constructor( msg, validateHeader=true ): thrown is TRUE when readUInt32LE
\* is out of range or the marker is not 0xFFFFFFFF
Q3MessageParser(msg) ==
    IF Len(msg) < 4
    THEN [thrown |-> TRUE, p |-> [msg |-> msg, offset |-> 0]]
    ELSE [thrown |-> ReadUInt32LE(msg, 0) # Marker,
          p |-> [msg |-> msg, offset |-> 4]]

\* constructor( msg, false ): nothing is read, the offset stays 0
Q3MessageParserNoHeader(msg) ==
    [thrown |-> FALSE, p |-> [msg |-> msg, offset |-> 0]]

readLine(p) ==
    LET str == ToAscii(p.msg, p.offset)
        nextLineIdx == IndexOf(str, LF)
    IN  IF nextLineIdx # -1
        THEN [p |-> [p EXCEPT !.offset = p.offset + nextLineIdx + 1],
              ret |-> SubSeq(str, 1, nextLineIdx)]
        ELSE [p |-> [p EXCEPT !.offset = p.offset + Len(str)],
              ret |-> str]

readChars(p, numBytes) ==
    LET raw == Slice(p.msg, p.offset, p.offset + numBytes)
    IN  [p |-> [p EXCEPT !.offset = p.offset + numBytes],
         ret |-> [i \in 1..Len(raw) |-> raw[i] % 128]]

skip(p, numBytes) ==
    IF p.offset + numBytes >= Len(p.msg)
    THEN [p |-> [p EXCEPT !.offset = Len(p.msg)], ret |-> FALSE]
    ELSE [p |-> [p EXCEPT !.offset = p.offset + numBytes], ret |-> TRUE]

RECURSIVE SplitLoop(_, _, _, _, _)
SplitLoop(p, chunkSize, stride, numChunks, chunks) ==
    IF /\ (p.offset + chunkSize) < Len(p.msg)
       /\ (numChunks = 0 \/ Len(chunks) < numChunks)
    THEN SplitLoop([p EXCEPT !.offset = p.offset + chunkSize + stride],
                   chunkSize, stride, numChunks,
                   Append(chunks, Slice(p.msg, p.offset, p.offset + chunkSize)))
    ELSE [p |-> p, ret |-> chunks]

\* the loop with the condition offset < msg.length
RECURSIVE SplitLoopShort(_, _, _, _, _)
SplitLoopShort(p, chunkSize, stride, numChunks, chunks) ==
    IF /\ p.offset < Len(p.msg)
       /\ (numChunks = 0 \/ Len(chunks) < numChunks)
    THEN SplitLoopShort([p EXCEPT !.offset = p.offset + chunkSize + stride],
                        chunkSize, stride, numChunks,
                        Append(chunks, Slice(p.msg, p.offset, p.offset + chunkSize)))
    ELSE [p |-> p, ret |-> chunks]

\* splitWithStride that takes a last chunk of whatever remains
splitWithStride_shortChunks(p, chunkSize, stride, numChunks) ==
    SplitLoopShort(p, chunkSize, stride, numChunks, <<>>)

splitWithStride(p, chunkSize, stride, numChunks) ==
    SplitLoop(p, chunkSize, stride, numChunks, <<>>)

remainingBytes(p) == Len(p.msg) - p.offset

\* String.prototype.split( /[...]/ ) on a class of single characters: the
\* lengths of the pieces, always at least one piece
RECURSIVE PieceLengths(_, _, _)
PieceLengths(str, delims, run) ==
    IF str = <<>> THEN <<run>>
    ELSE IF Head(str) \in delims
         THEN <<run>> \o PieceLengths(Tail(str), delims, 0)
         ELSE PieceLengths(Tail(str), delims, run + 1)

RECURSIVE SplitOn(_, _)
SplitOn(str, delims) ==
    LET lens == PieceLengths(str, delims, 0)
        StartOf(i) == LET RECURSIVE Before(_)
                          Before(j) == IF j = 0 THEN 0 ELSE lens[j] + 1 + Before(j - 1)
                      IN  Before(i - 1)
    IN  [i \in 1..Len(lens) |-> SubSeq(str, StartOf(i) + 1, StartOf(i) + lens[i])]

\* args.reduce( (s, arg) => s + arg.length + 1, 0 )
RECURSIVE Reduce(_)
Reduce(args) == IF args = <<>> THEN 0 ELSE Len(Head(args)) + 1 + Reduce(Tail(args))

parseStringArgs(p, allowCRLF) ==
    LET args == SplitOn(ToAscii(p.msg, p.offset),
                        IF allowCRLF THEN {SPACE, NUL} ELSE {SPACE, LF, CR, NUL})
    IN  [p |-> [p EXCEPT !.offset = p.offset + Reduce(args) - 1],
         ret |-> args]

(***************************************************************************)
(* lib/jkcomms.js: the callbacks the three operations hand to              *)
(* JKSocket.send.  Each returns what it does with the caller's callback:   *)
(* kind "result" (callback( null, value )), kind "error" (callback( err )) *)
(* or kind "throw" (an exception leaves the handler, callback not called). *)
(***************************************************************************)
ErrSource == "response came from"
ErrCommand == "expected command"
ErrChallenge == "challenge mismatch"
ErrTimeout == "socket timeout"
ErrSend == "send error"

CallResult(value) == [kind |-> "result", err |-> "null", value |-> value]
CallError(err) == [kind |-> "error", err |-> err, value |-> Undefined]
Thrown == [kind |-> "throw", err |-> "exception", value |-> Undefined]

\* opts.challenge || 'jkutils-query'
ChallengeOf(opts) ==
    IF opts.challenge = Undefined \/ opts.challenge = <<>>
    THEN str_jkutils_query
    ELSE opts.challenge

\* res.source.ip !== opts.ip || res.source.port !== opts.port
SourceDiffers(opts, res) ==
    res.source.ip # opts.ip \/ res.source.port # opts.port

\* the do/while of ctm_getservers: skip one byte, then repeat while the byte
\* under the cursor is found in [ '\0', '\n' ]; thrown when the cursor is
\* past the last byte (readUInt8 out of range)
RECURSIVE PaddingSkip(_)
PaddingSkip(p) ==
    LET q == skip(p, 1).p
    IN  IF q.offset >= Len(q.msg)
        THEN [thrown |-> TRUE, p |-> q]
        ELSE IF ArrayIndexOf(<<JSString(<<NUL>>), JSString(<<LF>>)>>,
                             JSNumber(q.msg[q.offset + 1])) # -1
             THEN PaddingSkip(q)
             ELSE [thrown |-> FALSE, p |-> q]

\* servers.push( JKUtils.decodeServer( chunk ) ) for every chunk; readUInt16BE
\* in decodeServer throws a RangeError on a chunk shorter than 6 bytes, and
\* the exception leaves the operation
DecodeChunks(chunks) == [i \in 1..Len(chunks) |-> decodeServer(chunks[i])]

\* ctm_getservers without the comparison of the command
ctm_getservers_anyCommand(strictMode, opts, res) ==
    IF SourceDiffers(opts, res) /\ strictMode
    THEN CallError(ErrSource)
    ELSE
    LET made == Q3MessageParser(res.response)
    IN  IF made.thrown THEN Thrown ELSE
    LET cmd == readChars(made.p, Len(str_getserversResponse))
        skipped == PaddingSkip(cmd.p)
    IN  IF skipped.thrown THEN Thrown ELSE
    LET split == splitWithStride(skipped.p, 6, 1, 0)
        servers == DecodeChunks(split.ret)
        sentinel == readLine(split.p)
    IN  IF \E i \in 1..Len(split.ret) : Len(split.ret[i]) < 6
        THEN Thrown
        ELSE CallResult(servers)

ctm_getservers(strictMode, opts, res) ==
    IF SourceDiffers(opts, res) /\ strictMode
    THEN CallError(ErrSource)
    ELSE
    LET made == Q3MessageParser(res.response)
    IN  IF made.thrown THEN Thrown ELSE
    LET cmd == readChars(made.p, Len(str_getserversResponse))
    IN  IF cmd.ret # str_getserversResponse /\ strictMode
        THEN CallError(ErrCommand)
        ELSE
    LET skipped == PaddingSkip(cmd.p)
    IN  IF skipped.thrown THEN Thrown ELSE
    LET split == splitWithStride(skipped.p, 6, 1, 0)
        servers == DecodeChunks(split.ret)
        sentinel == readLine(split.p)
    IN  IF \E i \in 1..Len(split.ret) : Len(split.ret[i]) < 6
        THEN Thrown
        ELSE CallResult(servers)

\* cts_getinfo without the challenge comparison
cts_getinfo_unchecked(strictMode, opts, res) ==
    IF SourceDiffers(opts, res) /\ strictMode
    THEN CallError(ErrSource)
    ELSE
    LET made == Q3MessageParser(res.response)
    IN  IF made.thrown THEN Thrown ELSE
    LET cmd == readLine(made.p)
    IN  IF cmd.ret # str_infoResponse /\ strictMode
        THEN CallError(ErrCommand)
        ELSE
    LET infoString == readLine(cmd.p)
        info == parseInfostring(infoString.ret)
    IN  CallResult([source |-> res.source, info |-> info])

cts_getinfo(strictMode, opts, res) ==
    LET challenge == ChallengeOf(opts)
    IN
    IF SourceDiffers(opts, res) /\ strictMode
    THEN CallError(ErrSource)
    ELSE
    LET made == Q3MessageParser(res.response)
    IN  IF made.thrown THEN Thrown ELSE
    LET cmd == readLine(made.p)
    IN  IF cmd.ret # str_infoResponse /\ strictMode
        THEN CallError(ErrCommand)
        ELSE
    LET infoString == readLine(cmd.p)
        info == parseInfostring(infoString.ret)
    IN  IF Get(info, str_challenge) # challenge /\ strictMode
        THEN CallError(ErrChallenge)
        ELSE CallResult([source |-> res.source, info |-> info])

IsDigit(c) == c >= 48 /\ c <= 57

\* length of the longest run of digits of str from position i (one-based)
RECURSIVE DigitRun(_, _)
DigitRun(str, i) ==
    IF i <= Len(str) /\ IsDigit(str[i]) THEN 1 + DigitRun(str, i + 1) ELSE 0

\* /^(?<score>\d+) (?<ping>\d+) "(?<name>.+)"$/.exec( line ): matched is
\* FALSE for null, groups are the three named groups, each the matched
\* substring (a value of type string)
ClientRegex(line) ==
    LET n1 == DigitRun(line, 1)
        n2 == DigitRun(line, n1 + 2)
        nameFrom == n1 + n2 + 4
        nameTo == Len(line) - 1
        ok == /\ n1 >= 1
              /\ Len(line) >= n1 + 1 /\ line[n1 + 1] = SPACE
              /\ n2 >= 1
              /\ Len(line) >= n1 + n2 + 3
              /\ line[n1 + n2 + 2] = SPACE
              /\ line[n1 + n2 + 3] = QUOTE
              /\ nameTo >= nameFrom
              /\ line[Len(line)] = QUOTE
              /\ \A i \in nameFrom..nameTo : line[i] \notin {LF, CR}
    IN  IF ok
        THEN [matched |-> TRUE,
              groups |-> [score |-> JSString(SubSeq(line, 1, n1)),
                          ping |-> JSString(SubSeq(line, n1 + 2, n1 + n2 + 1)),
                          name |-> JSString(SubSeq(line, nameFrom, nameTo))]]
        ELSE [matched |-> FALSE, groups |-> Undefined]

\* while ( (line = parser.readLine()) ) { ... clients.push( matches.groups ) }
RECURSIVE ClientLines(_, _)
ClientLines(p, clients) ==
    LET line == readLine(p)
        matches == ClientRegex(line.ret)
    IN  IF line.ret = <<>>
        THEN clients
        ELSE ClientLines(line.p,
                         IF matches.matched
                         THEN Append(clients, matches.groups)
                         ELSE clients)

\* cts_getstatus with the source comparison outside of the strictMode test
cts_getstatus_sourceFatal(strictMode, opts, res) ==
    LET challenge == ChallengeOf(opts)
    IN
    IF SourceDiffers(opts, res)
    THEN CallError(ErrSource)
    ELSE
    LET made == Q3MessageParser(res.response)
    IN  IF made.thrown THEN Thrown ELSE
    LET cmd == readLine(made.p)
    IN  IF cmd.ret # str_statusResponse /\ strictMode
        THEN CallError(ErrCommand)
        ELSE
    LET infoString == readLine(cmd.p)
        status == parseInfostring(infoString.ret)
    IN  IF Get(status, str_challenge) # challenge /\ strictMode
        THEN CallError(ErrChallenge)
        ELSE CallResult([source |-> res.source, status |-> status,
                         clients |-> ClientLines(infoString.p, <<>>)])

cts_getstatus(strictMode, opts, res) ==
    LET challenge == ChallengeOf(opts)
    IN
    IF SourceDiffers(opts, res) /\ strictMode
    THEN CallError(ErrSource)
    ELSE
    LET made == Q3MessageParser(res.response)
    IN  IF made.thrown THEN Thrown ELSE
    LET cmd == readLine(made.p)
    IN  IF cmd.ret # str_statusResponse /\ strictMode
        THEN CallError(ErrCommand)
        ELSE
    LET infoString == readLine(cmd.p)
        status == parseInfostring(infoString.ret)
    IN  IF Get(status, str_challenge) # challenge /\ strictMode
        THEN CallError(ErrChallenge)
        ELSE CallResult([source |-> res.source, status |-> status,
                         clients |-> ClientLines(infoString.p, <<>>)])

(***************************************************************************)
(* Inputs: peers, requests and datagrams                                   *)
(***************************************************************************)
PeerA == [ip |-> <<1, 2, 3, 4>>, port |-> 29070]
PeerB == [ip |-> <<5, 6, 7, 8>>, port |-> 29070]
Peers == {PeerA, PeerB}

Ops == {"getservers", "getinfo", "getstatus"}

\* a socketOpts field as the caller passes it: a boolean or undefined
OptValues == {"true", "false", "undefined"}

str_foo == <<102, 111, 111>>
str_map == <<109, 97, 112>>
str_ffa == <<102, 102, 97>>
str_EOT == <<69, 79, 84>>
str_EOF == <<69, 79, 70>>
str_player == <<49, 50, SPACE, 53, 53, SPACE, QUOTE, 80, 49, QUOTE>>

\* \challenge\<token>\map\ffa
InfoWith(token) ==
    <<BACKSLASH>> \o str_challenge \o <<BACKSLASH>> \o token
        \o <<BACKSLASH>> \o str_map \o <<BACKSLASH>> \o str_ffa

InfoReply(token) == oobPrefix \o str_infoResponse \o <<LF>> \o InfoWith(token)
InfoReplyNoChallenge ==
    oobPrefix \o str_infoResponse \o <<LF, BACKSLASH>> \o str_map \o <<BACKSLASH>> \o str_ffa
StatusReply(token) ==
    oobPrefix \o str_statusResponse \o <<LF>> \o InfoWith(token) \o <<LF>>
        \o str_player \o <<LF>>

\* 12 55 "Player One"
str_line_PlayerOne ==
    <<49, 50, SPACE, 53, 53, SPACE, QUOTE,
      80, 108, 97, 121, 101, 114, SPACE, 79, 110, 101, QUOTE>>
\* notanumber 55 "X"
str_line_notanumber ==
    <<110, 111, 116, 97, 110, 117, 109, 98, 101, 114, SPACE, 53, 53, SPACE,
      QUOTE, 88, QUOTE>>
\* 3 40 "Bob"
str_line_Bob == <<51, SPACE, 52, 48, SPACE, QUOTE, 66, 111, 98, QUOTE>>

\* a statusResponse with three client lines, the second one malformed
StatusReplyClients ==
    oobPrefix \o str_statusResponse \o <<LF>> \o InfoWith(str_jkutils_query)
        \o <<LF>> \o str_line_PlayerOne \o <<LF>> \o str_line_notanumber
        \o <<LF>> \o str_line_Bob \o <<LF>>

Record1 == <<1, 2, 3, 4, 31, 144>>
Record2 == <<5, 6, 7, 8, 78, 32>>
Record3 == <<9, 9, 9, 9, 113, 72>>

\* getserversResponse, two null bytes, two records, EOT
ServersReplyEOT ==
    oobPrefix \o str_getserversResponse \o <<NUL, NUL>>
        \o Record1 \o <<BACKSLASH>> \o Record2 \o <<BACKSLASH>> \o str_EOT
\* getserversResponse, one backslash, one record, EOF
ServersReplyEOF ==
    oobPrefix \o str_getserversResponse \o <<BACKSLASH>>
        \o Record3 \o <<BACKSLASH>> \o str_EOF
\* a reply that ends right after the command token
ServersReplyBare == oobPrefix \o str_getserversResponse
\* no OOB marker
NoMarkerReply == str_infoResponse \o <<LF>> \o InfoWith(str_jkutils_query)
\* shorter than four bytes
ShortReply == <<255, 255>>

\* what the peer an operation addresses may answer
Payloads ==
    {InfoReply(str_jkutils_query), InfoReply(str_foo), InfoReplyNoChallenge,
     StatusReply(str_jkutils_query), StatusReplyClients,
     ServersReplyEOT, ServersReplyEOF, ServersReplyBare,
     NoMarkerReply, ShortReply}

\* what the other peer may send: a reply to each operation and a datagram
\* without marker
StrayPayloads ==
    {InfoReply(str_jkutils_query), StatusReply(str_jkutils_query),
     ServersReplyEOF, NoMarkerReply}

(***************************************************************************)
(* State                                                                   *)
(***************************************************************************)
VARIABLES
    strictMode,   \* JKComms.strictMode
    socket,       \* JKSocket.socket: "open" or "null"
    timers,       \* JKSocket.timers: msgKey -> exchange whose timer it holds, 0 for undefined
    timerState,   \* per exchange, its setTimeout: "pending", "fired" or "cleared"
    listeners,    \* the 'message' listeners of the socket, in registration order
    recvMsg,      \* JKSocket.recvMsg: the exchange whose closure it holds, 0 before any send
    exch,         \* per exchange, what the closures of send captured
    calls,        \* per exchange, the invocations of the caller's callback, in order
    heard,        \* per exchange, the datagrams (positions in arrived) its listener received
    sendErr,      \* per exchange, whether the transport reported a send error
    arrived,      \* the datagrams delivered to the socket, in order
    crashed,      \* an exception has left an event handler
    parser,       \* a Q3MessageParser a caller holds, NoParser when it holds none
    last          \* the last call of a parser method or codec helper, NoCall before any

vars == <<strictMode, socket, timers, timerState, listeners, recvMsg, exch,
          calls, heard, sendErr, arrived, crashed, parser, last>>

\* what a session never touches
direct == <<parser, last>>

\* what a direct call of the parser or of a codec helper never touches
session == <<strictMode, socket, timers, timerState, listeners, recvMsg, exch,
             calls, heard, sendErr, arrived, crashed>>

NoParser == [msg |-> <<>>, offset |-> -1]
NoCall == [op |-> "none", arg |-> <<>>, thrown |-> FALSE, ret |-> <<>>]

\* the state the JKSocket methods and the listeners work on
Cur == [socket |-> socket, timers |-> timers, timerState |-> timerState,
        listeners |-> listeners, recvMsg |-> recvMsg, calls |-> calls,
        heard |-> heard, crashed |-> crashed]

(***************************************************************************)
(* lib/jksocket.js                                                         *)
(***************************************************************************)
\* { ip: opts.ip, port: opts.port }
Dest(x) == [ip |-> x.ip, port |-> x.port]

\* `^${dest.ip}~${dest.port}~${msg.toString().split( ' ' )[0]}$`
MsgKey(x) == [ip |-> x.ip, port |-> x.port, cmd |-> x.op]

clearTimer(st, key) ==
    IF key \in DOMAIN st.timers /\ st.timers[key] # 0
    THEN LET t == st.timers[key]
         IN  [st EXCEPT !.timerState[t] = IF @ = "pending" THEN "cleared" ELSE @,
                        !.timers[key] = 0]
    ELSE st

RECURSIVE ClearAll(_, _)
ClearAll(st, keys) ==
    IF keys = {} THEN st
    ELSE LET k == CHOOSE k \in keys : TRUE
         IN  ClearAll(clearTimer(st, k), keys \ {k})

destroy(st, clearAllTimers) ==
    LET closed == [st EXCEPT !.socket = "null"]
    IN  IF clearAllTimers THEN ClearAll(closed, DOMAIN closed.timers) ELSE closed

\* EventEmitter.removeListener: drops the most recently added instance
RemoveListener(ls, l) ==
    IF \E i \in 1..Len(ls) : ls[i] = l
    THEN LET i == CHOOSE i \in 1..Len(ls) :
                      ls[i] = l /\ \A j \in (i + 1)..Len(ls) : ls[j] # l
         IN  SubSeq(ls, 1, i - 1) \o SubSeq(ls, i + 1, Len(ls))
    ELSE ls

\* the caller's callback of exchange e is invoked
\* (via: "message", "timer" or "send"; n: the datagram that caused it, 0 if
\* none; socket: JKSocket.socket as the callback finds it)
Invoke(st, e, outcome, via, n) ==
    [st EXCEPT !.calls[e] = Append(@, [kind |-> outcome.kind, err |-> outcome.err,
                                       value |-> outcome.value,
                                       via |-> via, n |-> n,
                                       socket |-> st.socket])]

\* the callback JKComms handed to send, on a reply
Handler(x, data) ==
    CASE x.op = "getservers" -> ctm_getservers(strictMode, x, data)
      [] x.op = "getinfo" -> cts_getinfo(strictMode, x, data)
      [] x.op = "getstatus" -> cts_getstatus(strictMode, x, data)

\* recvMsg with the socket destroyed only when both options ask for it
recvMsgClosure_destroyWhenKilled(st0, e, data, n) ==
    LET x == exch[e]
        st == [st0 EXCEPT !.heard[e] = Append(@, n)]
        s1 == IF x.killOnFirstRes
              THEN LET c == clearTimer(st, MsgKey(x))
                   IN  IF c.socket = "null"
                       THEN [c EXCEPT !.crashed = TRUE]
                       ELSE [c EXCEPT !.listeners = RemoveListener(@, c.recvMsg)]
              ELSE st
        s2 == IF ~s1.crashed /\ ~x.retainSocket /\ x.killOnFirstRes
              THEN destroy(clearTimer(s1, MsgKey(x)), FALSE)
              ELSE s1
        outcome == Handler(x, data)
    IN  IF s2.crashed THEN s2
        ELSE IF outcome.kind = "throw" THEN [s2 EXCEPT !.crashed = TRUE]
        ELSE Invoke(s2, e, outcome, "message", n)

\* the recvMsg closure of exchange e receives data, the n-th datagram
recvMsgClosure(st0, e, data, n) ==
    LET x == exch[e]
        st == [st0 EXCEPT !.heard[e] = Append(@, n)]
        s1 == IF x.killOnFirstRes
              THEN LET c == clearTimer(st, MsgKey(x))
                   IN  IF c.socket = "null"
                       THEN [c EXCEPT !.crashed = TRUE]
                       ELSE [c EXCEPT !.listeners = RemoveListener(@, c.recvMsg)]
              ELSE st
        s2 == IF ~s1.crashed /\ ~x.retainSocket
              THEN destroy(clearTimer(s1, MsgKey(x)), FALSE)
              ELSE s1
        outcome == Handler(x, data)
    IN  IF s2.crashed THEN s2
        ELSE IF outcome.kind = "throw" THEN [s2 EXCEPT !.crashed = TRUE]
        ELSE Invoke(s2, e, outcome, "message", n)

\* EventEmitter.emit( 'message', msg, rinfo ): the listeners registered when
\* the datagram arrives run in order; an exception ends the dispatch
RECURSIVE Emit(_, _, _, _)
Emit(st, ls, data, n) ==
    IF ls = <<>> \/ st.crashed THEN st
    ELSE Emit(recvMsgClosure(st, Head(ls), data, n), Tail(ls), data, n)

\* JKComms.defaultSocketOpts
defaultSocketOpts(socketOpts) ==
    [killOnFirstRes |-> IF socketOpts.killOnFirstRes = "undefined"
                        THEN FALSE ELSE socketOpts.killOnFirstRes = "true",
     retainSocket |-> IF socketOpts.retainSocket = "undefined"
                      THEN TRUE ELSE socketOpts.retainSocket = "true"]

Apply(st) ==
    /\ socket' = st.socket
    /\ timers' = st.timers
    /\ timerState' = st.timerState
    /\ listeners' = st.listeners
    /\ recvMsg' = st.recvMsg
    /\ calls' = st.calls
    /\ heard' = st.heard
    /\ crashed' = st.crashed

Init ==
    /\ strictMode \in BOOLEAN
    /\ socket = "open"
    /\ timers = [k \in {} |-> 0]
    /\ timerState = <<>>
    /\ listeners = <<>>
    /\ recvMsg = 0
    /\ exch = <<>>
    /\ calls = <<>>
    /\ heard = <<>>
    /\ sendErr = <<>>
    /\ arrived = <<>>
    /\ crashed = FALSE
    /\ parser = NoParser
    /\ last = NoCall

\* what the closures of JKSocket.send capture when an operation is called
\* in state st
Captured(st, op, dest, socketOpts, challenge) ==
    LET o == defaultSocketOpts(socketOpts)
    IN  [op |-> op, ip |-> dest.ip, port |-> dest.port,
         challenge |-> challenge,
         killOnFirstRes |-> o.killOnFirstRes,
         retainSocket |-> o.retainSocket,
         transmitted |-> st.socket # "null"]

\* the body of JKSocket.send without the clearTimer( msgKey ) before the
\* timer is armed
sendOn_keepTimer(st, e, x) ==
    LET c == [st EXCEPT !.timerState = Append(@, "pending"),
                        !.calls = Append(@, <<>>),
                        !.heard = Append(@, <<>>)]
        t == [c EXCEPT !.timers = [k \in DOMAIN c.timers \cup {MsgKey(x)} |->
                                      IF k = MsgKey(x) THEN e ELSE c.timers[k]],
                       !.recvMsg = e]
    IN  IF st.socket = "null"
        THEN t
        ELSE [t EXCEPT !.listeners = Append(@, e)]

\* the body of JKSocket.send in state st, for exchange e with captures x
sendOn(st, e, x) ==
    LET c == clearTimer([st EXCEPT !.timerState = Append(@, "pending"),
                                   !.calls = Append(@, <<>>),
                                   !.heard = Append(@, <<>>)],
                        MsgKey(x))
        t == [c EXCEPT !.timers = [k \in DOMAIN c.timers \cup {MsgKey(x)} |->
                                      IF k = MsgKey(x) THEN e ELSE c.timers[k]],
                       !.recvMsg = e]
    IN  IF st.socket = "null"
        THEN t
        ELSE [t EXCEPT !.listeners = Append(@, e)]

\* ctm_getservers / cts_getinfo / cts_getstatus up to and including
\* JKSocket.send: exchange e is created
send(op, dest, socketOpts, challenge) ==
    LET e == Len(exch) + 1
        x == Captured(Cur, op, dest, socketOpts, challenge)
    IN  /\ ~crashed
        /\ exch' = Append(exch, x)
        /\ sendErr' = Append(sendErr, FALSE)
        /\ Apply(sendOn(Cur, e, x))
        /\ UNCHANGED <<strictMode, arrived, direct>>

\* a call of one of the three operations on a session that has issued fewer
\* than MaxExchanges
Send ==
    /\ Len(exch) < MaxExchanges
    /\ \E op \in Ops, dest \in Peers, k \in OptValues, r \in OptValues :
          send(op, dest, [killOnFirstRes |-> k, retainSocket |-> r], Undefined)

\* the setTimeout callback of exchange e runs
TimerFire(e) ==
    /\ ~crashed
    /\ e \in 1..Len(exch)
    /\ timerState[e] = "pending"
    /\ \A d \in 1..(e - 1) : timerState[d] # "pending"
    /\ LET st == [Cur EXCEPT !.timerState[e] = "fired"]
       IN  Apply(IF st.socket # "null"
                 THEN Invoke([st EXCEPT !.socket = "null"], e,
                             CallError(ErrTimeout), "timer", 0)
                 ELSE st)
    /\ UNCHANGED <<strictMode, exch, sendErr, arrived, direct>>

\* the completion callback of socket.send runs with an error (the transport
\* completes a send long before the 2500 ms of the timer armed with it)
SendError(e) ==
    /\ ~crashed
    /\ e \in 1..Len(exch)
    /\ exch[e].transmitted
    /\ ~sendErr[e]
    /\ timerState[e] # "fired"
    /\ sendErr' = [sendErr EXCEPT ![e] = TRUE]
    /\ Apply(Invoke(Cur, e, CallError(ErrSend), "send", 0))
    /\ UNCHANGED <<strictMode, exch, arrived, direct>>

\* a datagram arrives on the socket: 'message' is emitted
Deliver(src, payload) ==
    LET data == [source |-> src, response |-> payload]
    IN  /\ ~crashed
        /\ socket = "open"
        /\ \E e \in 1..Len(exch) : exch[e].transmitted
        /\ Len(arrived) < MaxDatagrams
        /\ arrived' = Append(arrived, data)
        /\ Apply(Emit(Cur, listeners, data, Len(arrived) + 1))
        /\ UNCHANGED <<strictMode, exch, sendErr, direct>>

Timeout == \E e \in 1..Len(exch) : TimerFire(e)

TransportError == \E e \in 1..Len(exch) : SendError(e)

\* the datagrams of the session specification: an infoResponse that echoes
\* the default challenge and one that does not, from either peer
SessionPayloads == {InfoReply(str_jkutils_query), InfoReply(str_foo)}

Arrive == \E src \in Peers, payload \in SessionPayloads : Deliver(src, payload)

Next ==
    \/ Send
    \/ Timeout
    \/ TransportError
    \/ Arrive

\* several operations on one session
Spec == Init /\ [][Next]_vars

(***************************************************************************)
(* One operation on a session, any datagram                                *)
(***************************************************************************)
str_bar == <<98, 97, 114>>

\* the one call of the session, to PeerA (PeerB is the address it did not
\* ask), with the default challenge or the challenge bar
SendOnce ==
    /\ exch = <<>>
    /\ \E op \in Ops, k \in OptValues, r \in OptValues,
          challenge \in {Undefined, str_bar} :
          send(op, PeerA, [killOnFirstRes |-> k, retainSocket |-> r], challenge)

\* a datagram from the peer the operation addresses, or from the other peer
ArriveAny ==
    \E src \in Peers :
        \E payload \in (IF \E e \in 1..Len(exch) : Dest(exch[e]) = src
                         THEN Payloads ELSE StrayPayloads) :
            Deliver(src, payload)

NextReply ==
    \/ SendOnce
    \/ Timeout
    \/ TransportError
    \/ ArriveAny

SpecReply == Init /\ [][NextReply]_vars

(***************************************************************************)
(* The chained workflow of index.js (serverstatus, and feed for each       *)
(* server): getinfo, and getstatus from the callback of getinfo            *)
(***************************************************************************)
\* const comms = new JKComms(): strictMode has its default, true
InitChained == Init /\ strictMode

\* comms.cts_getinfo( { ip, port }, { killOnFirstRes: true }, ... )
StartChain ==
    /\ exch = <<>>
    /\ send("getinfo", PeerA,
            [killOnFirstRes |-> "true", retainSocket |-> "undefined"], Undefined)

\* a datagram arrives: 'message' is emitted.  The callback handed to
\* cts_getinfo returns on an error and otherwise calls
\* comms.cts_getstatus( { ip, port }, { retainSocket: false, killOnFirstRes:
\* true }, ... ), whose callback sends nothing.  The only listener of the
\* dispatch is the one that runs this callback, so the send is its last step
\* (a send on a session whose socket is null throws inside the handler).
DeliverChained(src, payload) ==
    LET data == [source |-> src, response |-> payload]
        n == Len(arrived) + 1
        st == Emit(Cur, listeners, data, n)
        e == Len(exch) + 1
        x == Captured(st, "getstatus", PeerA,
                      [killOnFirstRes |-> "true", retainSocket |-> "false"],
                      Undefined)
        info == /\ ~st.crashed
                /\ exch[1].op = "getinfo"
                /\ \E i \in 1..Len(st.calls[1]) :
                      /\ st.calls[1][i].kind = "result"
                      /\ st.calls[1][i].via = "message"
                      /\ st.calls[1][i].n = n
    IN  /\ ~crashed
        /\ socket = "open"
        /\ \E d \in 1..Len(exch) : exch[d].transmitted
        /\ Len(arrived) < MaxDatagrams
        /\ arrived' = Append(arrived, data)
        /\ IF info
           THEN /\ exch' = Append(exch, x)
                /\ sendErr' = Append(sendErr, FALSE)
                /\ Apply(IF st.socket = "null"
                         THEN [sendOn(st, e, x) EXCEPT !.crashed = TRUE]
                         ELSE sendOn(st, e, x))
           ELSE /\ Apply(st)
                /\ UNCHANGED <<exch, sendErr>>
        /\ UNCHANGED <<strictMode, direct>>

ArriveChained ==
    \E src \in Peers :
        \E payload \in (IF src = PeerA THEN Payloads ELSE StrayPayloads) :
            DeliverChained(src, payload)

NextChained ==
    \/ StartChain
    \/ Timeout
    \/ TransportError
    \/ ArriveChained

SpecChained == InitChained /\ [][NextChained]_vars

(***************************************************************************)
(* Requests to one game server on one session, the server answering with   *)
(* an infoResponse                                                         *)
(***************************************************************************)
\* new JKComms(): strictMode has its default
InitTimers == Init /\ strictMode

\* cts_getinfo or cts_getstatus to the server, with killOnFirstRes set or
\* left out and retainSocket left out
SendKeyed ==
    /\ Len(exch) < MaxExchanges
    /\ \E op \in {"getinfo", "getstatus"}, k \in {"true", "undefined"} :
          send(op, PeerA, [killOnFirstRes |-> k, retainSocket |-> "undefined"], Undefined)

ArriveKeyed == Deliver(PeerA, InfoReply(str_jkutils_query))

NextTimers ==
    \/ SendKeyed
    \/ Timeout
    \/ TransportError
    \/ ArriveKeyed

SpecTimers == InitTimers /\ [][NextTimers]_vars

(***************************************************************************)
(* One getservers or getstatus operation and the one reply of its peer,    *)
(* the reply built from its parts                                          *)
(***************************************************************************)
\* bytes between the command token and the first record
MaxLead == 2
\* records of a getserversResponse
MaxRecords == 2
\* null bytes after the sentinel
MaxPadding == 4
\* lines after the infostring of a statusResponse
MaxLines == 3

RecordAt(i) == <<Record1, Record2, Record3>>[((i - 1) % 3) + 1]

\* dpmaster starts with a backslash, masterjk3.ravensoft.com with a line
\* feed and a null byte
LeadBytes == {BACKSLASH, NUL, LF}
Leads == UNION {[1..n -> LeadBytes] : n \in 1..MaxLead}

Sentinels == {str_EOT, str_EOF}

\* getserversResponse, lead, k records each followed by a backslash, the
\* sentinel, p null bytes
ServersReplyOf(lead, k, sentinel, p) ==
    oobPrefix \o str_getserversResponse \o lead
        \o Concat([i \in 1..k |-> RecordAt(i) \o <<BACKSLASH>>])
        \o sentinel \o [i \in 1..p |-> NUL]

ServersReplies ==
    {ServersReplyOf(lead, k, sentinel, p) :
        lead \in Leads, k \in 0..MaxRecords, sentinel \in Sentinels, p \in 0..MaxPadding}

\* a client line, a line that is no client line, and the empty line
LineKinds == {str_line_PlayerOne, str_line_Bob, str_line_notanumber, <<>>}

\* statusResponse, the infostring, the lines
StatusReplyOf(lines) ==
    oobPrefix \o str_statusResponse \o <<LF>> \o InfoWith(str_jkutils_query) \o <<LF>>
        \o Concat([i \in 1..Len(lines) |-> lines[i] \o <<LF>>])

StatusReplies ==
    {StatusReplyOf(lines) : lines \in UNION {[1..n -> LineKinds] : n \in 0..MaxLines}}

\* the one call of the session: ctm_getservers or cts_getstatus to PeerA
SendDecode ==
    /\ exch = <<>>
    /\ \E op \in {"getservers", "getstatus"}, k \in OptValues, r \in OptValues :
          send(op, PeerA, [killOnFirstRes |-> k, retainSocket |-> r], Undefined)

\* the one reply of PeerA arrives
ArriveDecode ==
    /\ exch # <<>>
    /\ arrived = <<>>
    /\ socket = "open"
    /\ ~crashed
    /\ \E payload \in (IF exch[1].op = "getservers"
                        THEN ServersReplies ELSE StatusReplies) :
          Deliver(PeerA, payload)

NextDecode ==
    \/ SendDecode
    \/ Timeout
    \/ TransportError
    \/ ArriveDecode

SpecDecode == Init /\ [][NextDecode]_vars

(***************************************************************************)
(* The message parser, called directly on any buffer                       *)
(***************************************************************************)
\* length of the bytes that follow the marker, or of a buffer without marker
MaxBody == 4
\* largest numBytes handed to readChars
MaxRead == 2

\* a line feed, a letter, and a byte that is a line feed but for its high bit
ByteValues == {LF, 65, 138}

Bodies == UNION {[1..n -> ByteValues] : n \in 0..MaxBody}

Messages == Bodies \cup {oobPrefix \o body : body \in Bodies}

\* a session exists and is never used
InitDirect == Init /\ strictMode

\* const parser = new Q3MessageParser( msg, validateHeader ), the first
\* direct call: on an exception no parser comes to exist
Construct ==
    /\ last.op = NoCall.op
    /\ \E msg \in Messages, validateHeader \in BOOLEAN :
          LET made == IF validateHeader
                      THEN Q3MessageParser(msg)
                      ELSE Q3MessageParserNoHeader(msg)
          IN  /\ parser' = IF made.thrown THEN NoParser ELSE made.p
              /\ last' = [op |-> "constructor",
                          arg |-> [msg |-> msg, validateHeader |-> validateHeader],
                          thrown |-> made.thrown, ret |-> <<>>]
    /\ UNCHANGED session

\* parser.readLine()
ReadLine ==
    /\ parser # NoParser
    /\ LET r == readLine(parser)
       IN  /\ parser' = r.p
           /\ last' = [op |-> "readLine", arg |-> parser,
                       thrown |-> FALSE, ret |-> r.ret]
    /\ UNCHANGED session

\* parser.readChars( numBytes ), called while the offset is within the buffer
\* (the offset it leaves may be past the end)
ReadChars ==
    /\ parser # NoParser
    /\ parser.offset <= Len(parser.msg)
    /\ \E numBytes \in 0..MaxRead :
          LET r == readChars(parser, numBytes)
          IN  /\ parser' = r.p
              /\ last' = [op |-> "readChars",
                          arg |-> [p |-> parser, numBytes |-> numBytes],
                          thrown |-> FALSE, ret |-> r.ret]
    /\ UNCHANGED session

\* parser.skip( numBytes )
Skip ==
    /\ parser # NoParser
    /\ \E numBytes \in 1..MaxRead :
          LET r == skip(parser, numBytes)
          IN  /\ parser' = r.p
              /\ last' = [op |-> "skip",
                          arg |-> [p |-> parser, numBytes |-> numBytes],
                          thrown |-> FALSE, ret |-> r.ret]
    /\ UNCHANGED session

\* parser.splitWithStride( chunkSize, stride, numChunks )
SplitWithStride ==
    /\ parser # NoParser
    /\ \E chunkSize \in 1..MaxRead, stride \in 0..1, numChunks \in 0..1 :
          LET r == splitWithStride(parser, chunkSize, stride, numChunks)
          IN  /\ parser' = r.p
              /\ last' = [op |-> "splitWithStride",
                          arg |-> [p |-> parser, chunkSize |-> chunkSize,
                                   stride |-> stride, numChunks |-> numChunks],
                          thrown |-> FALSE, ret |-> r.ret]
    /\ UNCHANGED session

\* parser.parseStringArgs( allowCRLF )
ParseStringArgs ==
    /\ parser # NoParser
    /\ \E allowCRLF \in BOOLEAN :
          LET r == parseStringArgs(parser, allowCRLF)
          IN  /\ parser' = r.p
              /\ last' = [op |-> "parseStringArgs",
                          arg |-> [p |-> parser, allowCRLF |-> allowCRLF],
                          thrown |-> FALSE, ret |-> r.ret]
    /\ UNCHANGED session

NextParser ==
    \/ Construct
    \/ ReadLine
    \/ ReadChars
    \/ Skip
    \/ SplitWithStride
    \/ ParseStringArgs

SpecParser == InitDirect /\ [][NextParser]_vars

(***************************************************************************)
(* The codec helpers, called directly                                      *)
(***************************************************************************)
\* number of pieces an infostring handed to parseInfostring is made of
MaxPieces == 4

Octets == {0, 1, 127, 128, 255}
Addresses == {<<a, b, c, d>> : a \in Octets, b \in Octets, c \in Octets, d \in Octets}
Ports == {0, 80, 255, 256, 8080, 29070, 65535}

\* the separator, a lower-case and an upper-case letter, and __proto__
Pieces == {<<BACKSLASH>>, <<97>>, <<66>>, str___proto__}

Infostrings == {Concat(ps) : ps \in UNION {[1..n -> Pieces] : n \in 0..MaxPieces}}

\* JKUtils.encodeServer( ip, port ), the first direct call
EncodeServer ==
    /\ last.op = NoCall.op
    /\ \E ip \in Addresses, port \in Ports :
          LET r == encodeServer(ip, port)
          IN  last' = [op |-> "encodeServer", arg |-> [ip |-> ip, port |-> port],
                       thrown |-> r.thrown, ret |-> r.buffer]
    /\ UNCHANGED <<parser, session>>

\* JKUtils.decodeServer( buffer ) on the buffer encodeServer returned
DecodeServer ==
    /\ last.op = "encodeServer"
    /\ ~last.thrown
    /\ last' = [op |-> "decodeServer",
                arg |-> [buffer |-> last.ret, encoded |-> last.arg],
                thrown |-> FALSE, ret |-> decodeServer(last.ret)]
    /\ UNCHANGED <<parser, session>>

\* JKUtils.parseInfostring( info ), the first direct call
ParseInfostring ==
    /\ last.op = NoCall.op
    /\ \E info \in Infostrings :
          last' = [op |-> "parseInfostring", arg |-> info,
                   thrown |-> FALSE, ret |-> parseInfostring(info)]
    /\ UNCHANGED <<parser, session>>

NextCodec ==
    \/ EncodeServer
    \/ DecodeServer
    \/ ParseInfostring

SpecCodec == InitDirect /\ [][NextCodec]_vars

(***************************************************************************)
(* Properties                                                              *)
(***************************************************************************)
Exchanges == 1..Len(exch)

\* the invocations of the callback of exchange e that datagram n caused
CallsFor(e, n) == SelectSeq(calls[e], LAMBDA c : c.via = "message" /\ c.n = n)

\* the invocations of the callback of exchange e with error err
CallsWith(e, err) == SelectSeq(calls[e], LAMBDA c : c.err = err)

\* the invocations of the callback of exchange e with a result
Results(e) == SelectSeq(calls[e], LAMBDA c : c.kind = "result")

ValidationErrors == {ErrSource, ErrCommand, ErrChallenge}

\* the payload starts with the four marker bytes
Framed(payload) == Len(payload) >= 4 /\ SubSeq(payload, 1, 4) = oobPrefix

\* the command line and the challenge field of a framed payload
ReplyCommand(payload) == readLine([msg |-> payload, offset |-> 4]).ret
ReplyChallenge(payload) ==
    Get(parseInfostring(
            readLine(readLine([msg |-> payload, offset |-> 4]).p).ret),
        str_challenge)

ExpectedCommand(op) ==
    CASE op = "getservers" -> str_getserversResponse
      [] op = "getinfo" -> str_infoResponse
      [] op = "getstatus" -> str_statusResponse

\* C1: every operation invokes its callback exactly once over the lifetime
\* of its exchange: never a second time, and once by the time its timer has
\* expired.
C1_CallbackExactlyOnce ==
    \A e \in Exchanges :
        /\ Len(calls[e]) <= 1
        /\ (exch[e].transmitted /\ timerState[e] = "fired")
              => Len(calls[e]) = 1

\* C2: when the timer of a transmitted operation has expired and no datagram
\* reached the operation before, its callback has been invoked with the
\* timeout error exactly once and the socket is released.
C2_TimeoutReported ==
    \A e \in Exchanges :
        (exch[e].transmitted /\ timerState[e] = "fired" /\ heard[e] = <<>>)
            => /\ Len(CallsWith(e, ErrTimeout)) = 1
               /\ socket = "null"

\* C3: of two getinfo exchanges to different peers, the callback of the one
\* is never invoked because of a datagram that the peer of the other sent.
C3_Isolation ==
    \A a \in Exchanges, b \in Exchanges :
        (/\ exch[a].op = "getinfo" /\ exch[b].op = "getinfo"
         /\ Dest(exch[a]) # Dest(exch[b]))
            => \A i \in 1..Len(calls[a]) :
                  calls[a][i].via = "message"
                      => arrived[calls[a][i].n].source # Dest(exch[b])

\* the reply is one that the operation of exchange e decodes down to the
\* challenge comparison
Decoded(e, data) ==
    /\ Framed(data.response)
    /\ strictMode => /\ ~SourceDiffers(exch[e], data)
                     /\ ReplyCommand(data.response) = ExpectedCommand(exch[e].op)

\* C4: in cts_getinfo and cts_getstatus, a decoded reply whose challenge
\* field differs from the challenge sent, or is absent, gives the callback a
\* challenge-mismatch error and no result in strict mode, and a result in
\* lenient mode.
C4_ChallengeMismatch ==
    \A e \in Exchanges : \A i \in 1..Len(heard[e]) :
        LET n == heard[e][i]
            data == arrived[n]
            got == CallsFor(e, n)
        IN  (/\ exch[e].op \in {"getinfo", "getstatus"}
             /\ Decoded(e, data)
             /\ ReplyChallenge(data.response) # ChallengeOf(exch[e]))
                => /\ Len(got) = 1
                   /\ IF strictMode
                      THEN got[1].kind = "error" /\ got[1].err = ErrChallenge
                      ELSE got[1].kind = "result"

\* a strict getinfo has decoded a reply that carries another challenge and
\* its callback got the challenge-mismatch error
C4_Witness ==
    /\ strictMode
    /\ \E e \in Exchanges : \E i \in 1..Len(heard[e]) :
          /\ exch[e].op = "getinfo"
          /\ arrived[heard[e][i]].response = InfoReply(str_foo)
          /\ Decoded(e, arrived[heard[e][i]])
          /\ Len(CallsFor(e, heard[e][i])) = 1
          /\ CallsFor(e, heard[e][i])[1].err = ErrChallenge

\* the operation can parse the payload: it is framed and, for getservers,
\* at least one byte follows the byte after the command token
Parseable(op, payload) ==
    /\ Framed(payload)
    /\ op = "getservers" => Len(payload) > 4 + Len(str_getserversResponse) + 1

\* C5: a reply whose source differs from the destination of the request
\* fails the exchange with an error and gives no result in strict mode; in
\* lenient mode the mismatch is no error and the reply is processed to a
\* result.
C5_SourceMismatch ==
    \A e \in Exchanges : \A i \in 1..Len(heard[e]) :
        LET n == heard[e][i]
            data == arrived[n]
            got == CallsFor(e, n)
        IN  SourceDiffers(exch[e], data)
                => IF strictMode
                   THEN /\ Len(got) = 1
                        /\ got[1].kind = "error"
                        /\ got[1].err = ErrSource
                   ELSE /\ \A j \in 1..Len(got) : got[j].err # ErrSource
                        /\ Parseable(exch[e].op, data.response)
                              => Len(got) = 1 /\ got[1].kind = "result"

\* a lenient getstatus has processed a reply from another address to a result
C5_Witness ==
    /\ ~strictMode
    /\ \E e \in Exchanges : \E i \in 1..Len(heard[e]) :
          /\ exch[e].op = "getstatus"
          /\ SourceDiffers(exch[e], arrived[heard[e][i]])
          /\ Len(CallsFor(e, heard[e][i])) = 1
          /\ CallsFor(e, heard[e][i])[1].kind = "result"

\* C6: no exception leaves the receive handler, and a datagram the operation
\* cannot parse is reported to the callback of the exchange as an error.
C6_ParseFailureReported ==
    /\ ~crashed
    /\ \A e \in Exchanges : \A i \in 1..Len(heard[e]) :
          LET n == heard[e][i]
          IN  ~Parseable(exch[e].op, arrived[n].response)
                  => /\ Len(CallsFor(e, n)) = 1
                     /\ CallsFor(e, n)[1].kind = "error"

\* C7: after the callback of an exchange was invoked with the timeout error,
\* a transport send error or a strict-mode validation error, the socket is
\* released.
C7_ReleasedOnError ==
    \A e \in Exchanges : \A i \in 1..Len(calls[e]) :
        (\/ calls[e][i].err \in {ErrTimeout, ErrSend}
         \/ strictMode /\ calls[e][i].err \in ValidationErrors)
            => socket = "null"

\* C8: no state has an operation resolved, no timer pending and the socket
\* still open.
C8_NoDanglingSocket ==
    ~ (/\ ~crashed
       /\ \E e \in Exchanges : calls[e] # <<>>
       /\ \A e \in Exchanges : timerState[e] # "pending"
       /\ socket = "open")

\* C9: a getservers exchange that receives the reply "getserversResponse",
\* two null bytes, the records 01 02 03 04 1F 90 and 05 06 07 08 4E 20 each
\* followed by a backslash, and EOT, from its master, resolves with exactly
\* [(1.2.3.4, 8080), (5.6.7.8, 20000)] and its callback is not invoked
\* again afterwards.
C9_ServersExample ==
    \A e \in Exchanges : \A i \in 1..Len(heard[e]) :
        LET n == heard[e][i]
        IN  (/\ exch[e].op = "getservers"
             /\ arrived[n] = [source |-> Dest(exch[e]), response |-> ServersReplyEOT])
                => /\ Len(CallsFor(e, n)) = 1
                   /\ CallsFor(e, n)[1].kind = "result"
                   /\ CallsFor(e, n)[1].value =
                          <<[ip |-> <<1, 2, 3, 4>>, port |-> 8080],
                            [ip |-> <<5, 6, 7, 8>>, port |-> 20000]>>
                   /\ calls[e][Len(calls[e])] = CallsFor(e, n)[1]

\* C10: a getservers exchange whose master answers with a datagram that ends
\* in EOF and then one that ends in EOT resolves once, with the records of
\* both datagrams in arrival order.
C10_MultiDatagram ==
    \A e \in Exchanges :
        (/\ exch[e].op = "getservers"
         /\ arrived = <<[source |-> Dest(exch[e]), response |-> ServersReplyEOF],
                        [source |-> Dest(exch[e]), response |-> ServersReplyEOT]>>)
            => /\ Len(Results(e)) = 1
               /\ Results(e)[1].value =
                      <<[ip |-> <<9, 9, 9, 9>>, port |-> 29000],
                        [ip |-> <<1, 2, 3, 4>>, port |-> 8080],
                        [ip |-> <<5, 6, 7, 8>>, port |-> 20000]>>

\* C11: constructing the parser with header validation over a buffer of at
\* least four bytes whose first four bytes are not the marker throws and
\* leaves no parser to read from; over a buffer that starts with the marker
\* it gives a parser on that buffer with offset 4.
C11_MarkerValidation ==
    (last.op = "constructor" /\ last.arg.validateHeader /\ Len(last.arg.msg) >= 4)
        => IF SubSeq(last.arg.msg, 1, 4) # oobPrefix
           THEN last.thrown /\ parser = NoParser
           ELSE ~last.thrown /\ parser = [msg |-> last.arg.msg, offset |-> 4]

\* the constructor has thrown on a buffer of four or more bytes
C11_Witness ==
    /\ last.op = "constructor" /\ last.arg.validateHeader
    /\ Len(last.arg.msg) >= 4
    /\ SubSeq(last.arg.msg, 1, 4) # oobPrefix
    /\ last.thrown
    /\ parser = NoParser

\* the invocations of the callback of exchange e that a datagram caused
MessageCalls(e) == SelectSeq(calls[e], LAMBDA c : c.via = "message")

\* C12: for every exchange sent with killOnFirstRes=true, once a datagram
\* has been delivered to its callback, its timer is no longer pending and no
\* later datagram invokes its callback again, whatever else was sent on the
\* session.
C12_KilledAfterFirstReply ==
    \A e \in Exchanges :
        (exch[e].killOnFirstRes /\ MessageCalls(e) # <<>>)
            => /\ timerState[e] # "pending"
               /\ Len(MessageCalls(e)) = 1

\* C13: once an exchange sent with retainSocket=false has received a
\* datagram, the socket is released, and it was already released when the
\* callback ran for that datagram, whatever killOnFirstRes is; an exchange
\* sent with retainSocket=true that has received one datagram and whose timer
\* has not expired still has its socket, whatever killOnFirstRes is.
C13_RetainSocket ==
    \A e \in Exchanges :
        heard[e] # <<>>
            => IF ~exch[e].retainSocket
               THEN /\ socket = "null"
                    /\ \A i \in 1..Len(calls[e]) :
                          calls[e][i].via = "message" => calls[e][i].socket = "null"
               ELSE (Len(heard[e]) = 1 /\ timerState[e] # "fired")
                        => socket = "open"

\* an exchange sent with retainSocket=false and killOnFirstRes=false has
\* handed a reply to its callback after the socket was released
C13_Witness ==
    \E e \in Exchanges :
        /\ ~exch[e].retainSocket /\ ~exch[e].killOnFirstRes
        /\ Len(heard[e]) = 1
        /\ Len(MessageCalls(e)) = 1
        /\ MessageCalls(e)[1].socket = "null"
        /\ socket = "null"

\* C14: every result of cts_getinfo carries the source of the reply and the
\* decoded infostring without the challenge key.
C14_ChallengeRemoved ==
    \A e \in Exchanges : \A i \in 1..Len(calls[e]) :
        (exch[e].op = "getinfo" /\ calls[e][i].kind = "result")
            => /\ calls[e][i].value.source = arrived[calls[e][i].n].source
               /\ str_challenge \notin DOMAIN calls[e][i].value.info

\* C15: a getstatus result for the reply whose client lines are
\* 12 55 "Player One", notanumber 55 "X" and 3 40 "Bob" has exactly the
\* records (score 12, ping 55, name Player One) and (score 3, ping 40, name
\* Bob), in that order, with score and ping numbers.
C15_ClientLines ==
    \A e \in Exchanges : \A i \in 1..Len(calls[e]) :
        (/\ exch[e].op = "getstatus"
         /\ calls[e][i].kind = "result"
         /\ arrived[calls[e][i].n].response = StatusReplyClients)
            => calls[e][i].value.clients =
                   <<[score |-> JSNumber(12), ping |-> JSNumber(55),
                      name |-> JSString(<<80, 108, 97, 121, 101, 114, SPACE, 79, 110, 101>>)],
                     [score |-> JSNumber(3), ping |-> JSNumber(40),
                      name |-> JSString(<<66, 111, 98>>)]>>

\* C16: for every dotted quad with octets 0..255 and every port 0..65535,
\* encodeServer returns the four octets in order followed by the high and
\* the low byte of the port, and decodeServer of that buffer returns the same
\* ip and the same port.
C16_ServerRoundTrip ==
    /\ last.op = "encodeServer"
          => /\ ~last.thrown
             /\ last.ret = last.arg.ip
                    \o <<last.arg.port \div 256, last.arg.port % 256>>
    /\ last.op = "decodeServer"
          => last.ret = [ip |-> last.arg.encoded.ip, port |-> last.arg.encoded.port]

\* the mapping of the pairs (lower-cased token 2i, token 2i+1) of info after
\* one leading backslash is removed, a later pair overriding an earlier one
\* with the same key, an unpaired last token dropped
PairsOf(info) ==
    LET stripped == IF info # <<>> /\ Head(info) = BACKSLASH THEN Tail(info) ELSE info
        toks == Split(stripped, BACKSLASH)
        n == Len(toks) \div 2
        KeyAt(i) == ToLowerCase(toks[2 * i - 1])
        LastWith(k) == CHOOSE i \in 1..n :
                           KeyAt(i) = k /\ \A j \in (i + 1)..n : KeyAt(j) # k
    IN  [k \in {KeyAt(i) : i \in 1..n} |-> toks[2 * LastWith(k)]]

\* C17: parseInfostring never throws and returns the mapping of the pairs
\* of its input.
C17_ParseInfostring ==
    last.op = "parseInfostring"
        => ~last.thrown /\ last.ret = PairsOf(last.arg)

\* C18: in the chained workflow a getstatus request to a peer is sent only
\* after a getinfo exchange to that peer has given its callback a result,
\* and none is sent when the first outcome of that getinfo exchange was an
\* error or a timeout.
C18_StatusAfterInfo ==
    \A s \in Exchanges :
        exch[s].op = "getstatus"
            => /\ \E g \in 1..(s - 1) :
                     /\ exch[g].op = "getinfo"
                     /\ Dest(exch[g]) = Dest(exch[s])
                     /\ Results(g) # <<>>
               /\ \A g \in 1..(s - 1) :
                     exch[g].op = "getinfo" => calls[g][1].kind = "result"

\* the command an operation reads from a framed payload: the 18 characters
\* after the marker for getservers, the first line for getinfo and getstatus
CommandToken(op, payload) ==
    IF op = "getservers"
    THEN readChars([msg |-> payload, offset |-> 4], Len(str_getserversResponse)).ret
    ELSE readLine([msg |-> payload, offset |-> 4]).ret

\* C19: in each of the three operations, a framed reply (in strict mode, from
\* the address asked) whose command differs from the one the operation
\* expects gives the callback the command error and no result in strict
\* mode; in lenient mode it gives no command error, and the reply is parsed
\* on to a result.
C19_CommandMismatch ==
    \A e \in Exchanges : \A i \in 1..Len(heard[e]) :
        LET n == heard[e][i]
            data == arrived[n]
            got == CallsFor(e, n)
        IN  (/\ Framed(data.response)
             /\ CommandToken(exch[e].op, data.response) # ExpectedCommand(exch[e].op)
             /\ strictMode => ~SourceDiffers(exch[e], data))
                => IF strictMode
                   THEN /\ Len(got) = 1
                        /\ got[1].kind = "error"
                        /\ got[1].err = ErrCommand
                   ELSE /\ \A j \in 1..Len(got) : got[j].err # ErrCommand
                        /\ Parseable(exch[e].op, data.response)
                              => Len(got) = 1 /\ got[1].kind = "result"

\* a strict getservers has received an infoResponse from its master and its
\* callback got the command error
C19_Witness ==
    /\ strictMode
    /\ \E e \in Exchanges : \E i \in 1..Len(heard[e]) :
          /\ exch[e].op = "getservers"
          /\ arrived[heard[e][i]] =
                 [source |-> Dest(exch[e]), response |-> InfoReply(str_jkutils_query)]
          /\ Len(CallsFor(e, heard[e][i])) = 1
          /\ CallsFor(e, heard[e][i])[1].err = ErrCommand

\* the bytes of p.msg from p.offset on
Remaining(p) == SubSeq(p.msg, p.offset + 1, Len(p.msg))

\* the string a sequence of bytes reads as: one character per byte, with the
\* code of the byte in 7 bits
AsString(bytes) == [i \in 1..Len(bytes) |-> bytes[i] % 128]

\* C20: readLine called with the offset not past the end returns, as a
\* string, the bytes from the offset up to, and not including, the next
\* line-feed byte and leaves the offset just after that byte; when no
\* line-feed byte remains it returns all the remaining bytes and leaves the
\* offset at the length of the buffer (at the end of the buffer: the empty
\* string, offset unchanged).
C20_ReadLine ==
    (last.op = "readLine" /\ last.arg.offset <= Len(last.arg.msg))
        => LET rest == Remaining(last.arg)
               k == IndexOf(rest, LF)
           IN  IF k # -1
               THEN /\ last.ret = AsString(SubSeq(rest, 1, k))
                    /\ parser.offset = last.arg.offset + k + 1
               ELSE /\ last.ret = AsString(rest)
                    /\ parser.offset = Len(last.arg.msg)

\* C21: readChars( n ) called with at least n bytes remaining returns those n
\* bytes as a string and advances the offset by n; called with fewer than n
\* bytes remaining it throws, and the offset does not pass the end of the
\* buffer.
C21_ReadChars ==
    last.op = "readChars"
        => LET p == last.arg.p
               n == last.arg.numBytes
           IN  IF p.offset + n <= Len(p.msg)
               THEN /\ ~last.thrown
                    /\ last.ret = AsString(SubSeq(p.msg, p.offset + 1, p.offset + n))
                    /\ parser.offset = p.offset + n
               ELSE /\ last.thrown
                    /\ parser.offset <= Len(parser.msg)

\* C22: skip( n ) called with the offset not past the end returns false and
\* leaves the offset at the length of the buffer exactly when offset + n is
\* greater than the length; otherwise, also when offset + n equals the
\* length, it advances the offset by n and returns true.
C22_Skip ==
    (last.op = "skip" /\ last.arg.p.offset <= Len(last.arg.p.msg))
        => LET p == last.arg.p
               n == last.arg.numBytes
           IN  IF p.offset + n > Len(p.msg)
               THEN last.ret = FALSE /\ parser.offset = Len(p.msg)
               ELSE last.ret = TRUE /\ parser.offset = p.offset + n

\* the chunks of chunkSize bytes of msg from offset on, stride bytes apart,
\* as long as chunkSize bytes remain and fewer than numChunks were taken
\* (numChunks 0: no limit)
RECURSIVE ChunksFrom(_, _, _, _, _, _)
ChunksFrom(msg, offset, chunkSize, stride, numChunks, taken) ==
    IF /\ Len(msg) - offset >= chunkSize
       /\ (numChunks = 0 \/ taken < numChunks)
    THEN <<SubSeq(msg, offset + 1, offset + chunkSize)>>
             \o ChunksFrom(msg, offset + chunkSize + stride, chunkSize, stride,
                           numChunks, taken + 1)
    ELSE <<>>

\* C23: splitWithStride( chunkSize, stride, numChunks ) called with the
\* offset not past the end returns the consecutive chunks of exactly
\* chunkSize bytes, stride bytes apart, and stops only when fewer than
\* chunkSize bytes remain or numChunks chunks were taken: a last chunk of
\* exactly the chunkSize remaining bytes is returned.
C23_SplitWithStride ==
    (last.op = "splitWithStride" /\ last.arg.p.offset <= Len(last.arg.p.msg))
        => last.ret = ChunksFrom(last.arg.p.msg, last.arg.p.offset,
                                 last.arg.chunkSize, last.arg.stride,
                                 last.arg.numChunks, 0)

\* C27: no operation of a parser changes its buffer or lowers its offset.
C27_ForwardCursor ==
    [][parser # NoParser
          => parser'.msg = parser.msg /\ parser'.offset >= parser.offset]_vars

\* C26: no two exchanges with the same (ip, port, command) key have their
\* timers pending together; a send cancels the pending timer of every
\* earlier exchange with its key and leaves the timers of the exchanges with
\* other keys as they are; a cancelled timer stays cancelled, so it never
\* fires.
C26_OneTimerPerKey ==
    [][/\ \A a \in 1..Len(exch'), b \in 1..Len(exch') :
             (a # b /\ MsgKey(exch'[a]) = MsgKey(exch'[b]))
                 => ~(timerState'[a] = "pending" /\ timerState'[b] = "pending")
       /\ \A d \in 1..Len(exch) :
             timerState[d] = "cleared" => timerState'[d] = "cleared"
       /\ Len(exch') = Len(exch) + 1
             => \A d \in 1..Len(exch) :
                   IF MsgKey(exch[d]) = MsgKey(exch'[Len(exch')])
                   THEN /\ timerState'[d] # "pending"
                        /\ timerState[d] = "pending" => timerState'[d] = "cleared"
                   ELSE timerState'[d] = timerState[d]]_vars

\* the same command was sent twice to the same peer before anything came
\* back: the timer of the first send is cancelled and the timer of the
\* second send has fired
C26_Witness ==
    \E a \in Exchanges, b \in Exchanges :
        /\ a < b
        /\ MsgKey(exch[a]) = MsgKey(exch[b])
        /\ heard[a] = <<>> /\ calls[a] = <<>>
        /\ timerState[a] = "cleared"
        /\ timerState[b] = "fired"

\* the offset of the first byte of payload, from offset on, that is neither
\* a null byte nor a line feed (the length of payload when there is none)
RECURSIVE FirstNonPadding(_, _)
FirstNonPadding(payload, offset) ==
    IF offset < Len(payload) /\ payload[offset + 1] \in {NUL, LF}
    THEN FirstNonPadding(payload, offset + 1)
    ELSE offset

\* the offset just after the command token of a getserversResponse
AfterToken == Len(oobPrefix) + Len(str_getserversResponse)

\* C24: when the command token of a getservers reply is followed by one or
\* more null or line-feed bytes, the first record of the result is decoded
\* from the 6 bytes that start at the first byte that is neither.
C24_PaddingSkipped ==
    \A e \in Exchanges : \A i \in 1..Len(calls[e]) :
        LET c == calls[e][i]
            payload == arrived[c.n].response
            start == FirstNonPadding(payload, AfterToken)
        IN  (/\ exch[e].op = "getservers"
             /\ c.kind = "result"
             /\ c.value # <<>>
             /\ start > AfterToken)
                => c.value[1] = decodeServer(Slice(payload, start, start + 6))

\* the records of the lines of payload after the infostring line that match
\* the client pattern, in order
ExpectedClients(payload) ==
    LET after == readLine(readLine([msg |-> payload, offset |-> 4]).p).p
        rest == ToAscii(payload, after.offset)
        lines == Split(rest, LF)
        matching == SelectSeq(lines, LAMBDA l : ClientRegex(l).matched)
    IN  [j \in 1..Len(matching) |-> ClientRegex(matching[j]).groups]

\* C25: the clients of a getstatus result are the records of all the lines
\* after the infostring line that match the client pattern, also of those
\* that follow an empty or a non-matching line.
C25_EveryLineTested ==
    \A e \in Exchanges : \A i \in 1..Len(calls[e]) :
        (exch[e].op = "getstatus" /\ calls[e][i].kind = "result")
            => calls[e][i].value.clients
                   = ExpectedClients(arrived[calls[e][i].n].response)

\* C28: a getservers reply with at least one byte after its lead byte (in
\* strict mode: with the expected command) gives a result without an
\* exception, and every record of the result is decoded from 6 bytes that
\* lie within the payload: the j-th record from the 6 bytes at offset
\* 23 + 7 (j - 1).
C28_FullChunks ==
    \A e \in Exchanges : \A i \in 1..Len(heard[e]) :
        LET n == heard[e][i]
            payload == arrived[n].response
            got == CallsFor(e, n)
        IN  (/\ exch[e].op = "getservers"
             /\ Framed(payload)
             /\ Len(payload) > AfterToken + 1
             /\ ~SourceDiffers(exch[e], arrived[n])
             /\ strictMode => CommandToken("getservers", payload) = str_getserversResponse)
                => /\ Len(got) = 1
                   /\ got[1].kind = "result"
                   /\ \A j \in 1..Len(got[1].value) :
                         LET at == AfterToken + 1 + 7 * (j - 1)
                         IN  /\ at + 6 <= Len(payload)
                             /\ got[1].value[j]
                                    = decodeServer(SubSeq(payload, at + 1, at + 6))

\* a getservers exchange has a result of two records, each decoded from 6
\* bytes of a reply that ends with a sentinel and null bytes
C28_Witness ==
    \E e \in Exchanges :
        /\ exch[e].op = "getservers"
        /\ Len(arrived) = 1
        /\ arrived[1].response = ServersReplyOf(<<BACKSLASH>>, 2, str_EOT, 3)
        /\ Len(calls[e]) = 1
        /\ calls[e][1].kind = "result"
        /\ calls[e][1].value = <<decodeServer(Record1), decodeServer(Record2)>>

\* C29: a getservers reply made of the command token, one lead byte, k
\* records each followed by a backslash, EOT or EOF and p null bytes gives
\* exactly one result, the k records in order.
C29_RecordsOnly ==
    \A e \in Exchanges : \A i \in 1..Len(heard[e]) :
        LET n == heard[e][i]
            got == CallsFor(e, n)
        IN  \A d \in LeadBytes, k \in 0..MaxRecords,
               sentinel \in Sentinels, p \in 0..MaxPadding :
                (/\ exch[e].op = "getservers"
                 /\ arrived[n] = [source |-> Dest(exch[e]),
                                  response |-> ServersReplyOf(<<d>>, k, sentinel, p)])
                    => /\ Len(got) = 1
                       /\ got[1].kind = "result"
                       /\ got[1].value = [j \in 1..k |-> decodeServer(RecordAt(j))]

\* the chained workflow has delivered its final callback: the callback of
\* getinfo with an error, or the callback of getstatus
WorkflowDone ==
    /\ exch # <<>>
    /\ \/ calls[1] # <<>> /\ calls[1][1].kind = "error"
       \/ Len(exch) >= 2 /\ calls[2] # <<>>

\* C30: in the chained workflow without transport send errors, once the
\* final callback has been delivered the socket is released, no timer of the
\* session is pending, and neither callback has been invoked more than once.
C30_WorkflowCleanup ==
    (/\ WorkflowDone
     /\ ~crashed
     /\ \A e \in Exchanges : ~sendErr[e])
        => /\ socket = "null"
           /\ \A e \in Exchanges : timerState[e] # "pending"
           /\ \A e \in Exchanges : Len(calls[e]) <= 1

====
